---- MODULE Spec2Model ----
(***************************************************************************)
(* Model of the Dash database cleanup panel (src/main.py).                 *)
(*                                                                         *)
(* The state is the PostgreSQL public schema the panel works on (tables,   *)
(* their columns with catalog data types, their rows), the table list read *)
(* once at process start, the open database connections, and, for every    *)
(* browser session, the values of the dropdowns that Dash hands to the     *)
(* callbacks.  One session is followed in full; the other sessions are the *)
(* statements they commit.  Text is a sequence of one-character strings,   *)
(* so that comparison, case and blanks are what they are in the program.   *)
(***************************************************************************)
EXTENDS Integers, Sequences, FiniteSets, TLC

\* ------------------------------------------------------------------ bounds
NRows == 3          \* rows the orders table starts with
MaxDate == 2        \* calendar dates 1..MaxDate (1 = 2022-12-31, 2 = 2023-01-01, ...)
MaxOpenConns == 1   \* connections that may be open and unreferenced at once

Sessions == {"s1"}
Dates == 1..MaxDate

\* Python's None; the SQL NULL of a row value; an empty date picker.
None == <<"None">>
NULL == 0
NoDate == 0

\* ------------------------------------------------------------------ text
LowerCase == <<"a","b","c","d","e","f","g","h","i","j","k","l","m",
               "n","o","p","q","r","s","t","u","v","w","x","y","z">>
UpperCase == <<"A","B","C","D","E","F","G","H","I","J","K","L","M",
               "N","O","P","Q","R","S","T","U","V","W","X","Y","Z">>
Space == " "

Range(f) == {f[i] : i \in DOMAIN f}

Chars == Range(LowerCase) \cup Range(UpperCase) \cup {Space}

\* The character codes, as the database's text ordering (C collation) uses them.
CharCode ==
    [c \in Chars |->
       IF c = Space THEN 32
       ELSE IF c \in Range(UpperCase)
            THEN 64 + (CHOOSE i \in DOMAIN UpperCase : UpperCase[i] = c)
            ELSE 96 + (CHOOSE i \in DOMAIN LowerCase : LowerCase[i] = c)]

Ord(c) == CharCode[c]

LowerOf ==
    [c \in Chars |->
       IF c \in Range(UpperCase)
       THEN LowerCase[CHOOSE i \in DOMAIN UpperCase : UpperCase[i] = c]
       ELSE c]

Lower(c) == LowerOf[c]

UpperOf ==
    [c \in Chars |->
       IF c \in Range(LowerCase)
       THEN UpperCase[CHOOSE i \in DOMAIN LowerCase : LowerCase[i] = c]
       ELSE c]

Upper(c) == UpperOf[c]

\* Python truthiness of an optional string: `not x` is True for None and "".
Truthy(x) == x # None /\ x # <<>>

RECURSIVE LStrip(_)
LStrip(s) == IF s # <<>> /\ Head(s) = Space THEN LStrip(Tail(s)) ELSE s

RECURSIVE RStrip(_)
RStrip(s) ==
    IF s # <<>> /\ s[Len(s)] = Space THEN RStrip(SubSeq(s, 1, Len(s) - 1)) ELSE s

\* The text an f-string puts into the statement: str(None) is "None".
Interpolate(x) == IF x = None THEN <<"N", "o", "n", "e">> ELSE x

\* What PostgreSQL reads where the statement text has an unquoted identifier
\* followed by the rest of the statement: blanks around it separate tokens,
\* the identifier is folded to lower case, and text that is not one token
\* (empty, or with a blank inside) is a syntax error.
SyntaxError == <<"syntax error">>

Ident(x) ==
    LET tok == RStrip(LStrip(Interpolate(x)))
    IN  IF tok = <<>> \/ \E i \in DOMAIN tok : tok[i] = Space
        THEN SyntaxError
        ELSE [i \in DOMAIN tok |-> Lower(tok[i])]

RECURSIVE LexLess(_, _)
LexLess(a, b) ==
    IF a = <<>> THEN b # <<>>
    ELSE IF b = <<>> THEN FALSE
    ELSE IF Head(a) = Head(b) THEN LexLess(Tail(a), Tail(b))
    ELSE Ord(Head(a)) < Ord(Head(b))

\* ORDER BY over a set of distinct names.
RECURSIVE OrderBy(_)
OrderBy(S) ==
    IF S = {} THEN <<>>
    ELSE LET m == CHOOSE x \in S : \A y \in S \ {x} : LexLess(x, y)
         IN  <<m>> \o OrderBy(S \ {m})

\* ------------------------------------------------------------------ names
t_orders == <<"o", "r">>
t_logs == <<"l", "g">>
c_created == <<"c", "r">>
c_ts == <<"t", "s">>
c_notes == <<"n", "t">>

\* The data types the add-column dropdown offers.
DataTypes == {<<"TEXT">>, <<"INTEGER">>, <<"NUMERIC">>, <<"BOOLEAN">>, <<"DATE">>, <<"TIMESTAMP">>}

\* information_schema.columns.data_type of a column declared with that type.
PgType(dtype) ==
    CASE dtype = <<"TEXT">> -> "text"
      [] dtype = <<"INTEGER">> -> "integer"
      [] dtype = <<"NUMERIC">> -> "numeric"
      [] dtype = <<"BOOLEAN">> -> "boolean"
      [] dtype = <<"DATE">> -> "date"
      [] dtype = <<"TIMESTAMP">> -> "timestamp without time zone"

TemporalTypes == {"date", "timestamp without time zone", "timestamp with time zone"}

\* Types whose values cannot be compared with a date literal.
NotDateComparable == {"integer", "numeric", "boolean"}

VARIABLES
    db,         \* public schema: table name -> [cols: name -> data_type, rows: id -> (col -> value)]
    tables,     \* module-level `tables`, fetched once at start
    openConns,  \* connections opened and not closed
    table_dd,   \* per session: value of the table dropdown
    date_opts,  \* per session: options of date_column_dd
    date_val,   \* per session: value of date_column_dd
    all_opts,   \* per session: options of all_columns_dd
    all_val,    \* per session: value of all_columns_dd
    pc,         \* per session: "load", "idle", or the position inside update_columns
    date_cols,  \* per session: local date_cols of a running update_columns
    opts_table, \* per session: the `table` argument of the update_columns call that set the options
    last        \* the most recent callback invocation: its inputs and what it did

vars == <<db, tables, openConns, table_dd, date_opts, date_val, all_opts, all_val,
          pc, date_cols, opts_table, last>>

ui == <<table_dd, date_opts, date_val, all_opts, all_val, pc, date_cols, opts_table>>

\* ------------------------------------------------------------------ database
Restrict(f, S) == [x \in S |-> f[x]]

\* Mutant: the predicate written with <= instead of <.
RowMatchesInclusive(v, cutoff) == v # NULL /\ v <= cutoff

\* DELETE FROM t WHERE c < cutoff, row by row; NULL < cutoff is not true.
RowMatches(v, cutoff) == v # NULL /\ v < cutoff

RECURSIVE DeleteScan(_, _, _, _)
DeleteScan(rows, ids, c, cutoff) ==
    IF ids = {} THEN [rows |-> rows, rowcount |-> 0]
    ELSE LET id == CHOOSE i \in ids : TRUE
             rest == DeleteScan(rows, ids \ {id}, c, cutoff)
         IN  IF RowMatches(rows[id][c], cutoff)
             THEN [rows |-> Restrict(rest.rows, DOMAIN rest.rows \ {id}),
                   rowcount |-> rest.rowcount + 1]
             ELSE rest

Failed(d) == [ok |-> FALSE, db |-> d, rowcount |-> 0]

ExecDelete(d, table_name, column_name, cutoff_date) ==
    LET t == Ident(table_name)
        c == Ident(column_name)
    IN  IF t \notin DOMAIN d THEN Failed(d)
        ELSE IF c \notin DOMAIN d[t].cols THEN Failed(d)
        ELSE IF d[t].cols[c] \in NotDateComparable THEN Failed(d)
        ELSE LET r == DeleteScan(d[t].rows, DOMAIN d[t].rows, c, cutoff_date)
             IN  [ok |-> TRUE,
                  db |-> [d EXCEPT ![t].rows = r.rows],
                  rowcount |-> r.rowcount]

ExecDropTable(d, table_name) ==
    LET t == Ident(table_name)
    IN  IF t \notin DOMAIN d THEN Failed(d)
        ELSE [ok |-> TRUE, db |-> Restrict(d, DOMAIN d \ {t}), rowcount |-> 0]

ExecAddColumn(d, table_name, column_name, data_type) ==
    LET t == Ident(table_name)
        c == Ident(column_name)
    IN  IF t \notin DOMAIN d \/ c = SyntaxError \/ data_type \notin DataTypes THEN Failed(d)
        ELSE IF c \in DOMAIN d[t].cols THEN Failed(d)
        ELSE LET cs == DOMAIN d[t].cols \cup {c}
             IN  [ok |-> TRUE,
                  db |-> [d EXCEPT
                            ![t].cols = [x \in cs |-> IF x = c THEN PgType(data_type) ELSE @[x]],
                            ![t].rows = [id \in DOMAIN @ |->
                                           [x \in cs |-> IF x = c THEN NULL ELSE @[id][x]]]],
                  rowcount |-> 0]

ExecDropColumn(d, table_name, column_name) ==
    LET t == Ident(table_name)
        c == Ident(column_name)
    IN  IF t \notin DOMAIN d THEN Failed(d)
        ELSE IF c \notin DOMAIN d[t].cols THEN Failed(d)
        ELSE LET cs == DOMAIN d[t].cols \ {c}
             IN  [ok |-> TRUE,
                  db |-> [d EXCEPT
                            ![t].cols = Restrict(@, cs),
                            ![t].rows = [id \in DOMAIN @ |-> Restrict(@[id], cs)]],
                  rowcount |-> 0]

\* ------------------------------------------------------------------ DB helpers
\* The catalog queries bind the table name as a parameter: it is compared
\* as a value, exactly, with the stored name.
fetch_tables(d) == OrderBy(DOMAIN d)

fetch_date_columns(d, table_name) ==
    IF table_name \notin DOMAIN d THEN <<>>
    ELSE OrderBy({c \in DOMAIN d[table_name].cols : d[table_name].cols[c] \in TemporalTypes})

fetch_all_columns(d, table_name) ==
    IF table_name \notin DOMAIN d THEN <<>>
    ELSE OrderBy(DOMAIN d[table_name].cols)

\* Mutant: a failed statement is executed a second time.
OutcomeRetried(d, r) ==
    [raised |-> ~r.ok, db |-> IF r.ok THEN r.db ELSE d, ret |-> r.rowcount,
     stmts |-> IF r.ok THEN 1 ELSE 2]

\* A mutator's run: the statements it executed, whether it raised, the
\* committed database it leaves (commit on success; the connection's context
\* manager rolls back when the statement raised), and its return value.
Outcome(d, r) ==
    [raised |-> ~r.ok, db |-> IF r.ok THEN r.db ELSE d, ret |-> r.rowcount, stmts |-> 1]

delete_before_date(d, table_name, column_name, cutoff_date) ==
    Outcome(d, ExecDelete(d, table_name, column_name, cutoff_date))

drop_table(d, table_name) == Outcome(d, ExecDropTable(d, table_name))

add_column(d, table_name, column_name, data_type) ==
    Outcome(d, ExecAddColumn(d, table_name, column_name, data_type))

drop_column(d, table_name, column_name) ==
    Outcome(d, ExecDropColumn(d, table_name, column_name))

\* ------------------------------------------------------------------ initial state
\* The schema the panel is started on: orders, whose rows carry the dates
\* 1, 2, ... and then no date, and an empty log table.  The connection of
\* the start-up table query has been closed by then.
InitialDb ==
    [t \in {t_orders, t_logs} |->
        IF t = t_orders
        THEN [cols |-> [c \in {c_created} |-> "date"],
              rows |-> [id \in 1..NRows |->
                          [c \in {c_created} |-> IF id \in Dates THEN id ELSE NULL]]]
        ELSE [cols |-> [c \in {c_ts} |-> "timestamp with time zone"],
              rows |-> <<>>]]

\* A callback invocation: the session, the callback, its arguments, the
\* connections it opened, the statements it executed, whether the database
\* raised, the colour of the alert it returned ("exception" when it returned
\* none because an exception left the callback), and the row count it reports.
Call(s, op, table, col, text, cutoff, r, level) ==
    [sess |-> s, op |-> op, table |-> table, col |-> col, text |-> text, cutoff |-> cutoff,
     conns |-> r.stmts, stmts |-> r.stmts, raised |-> r.raised, ret |-> r.ret, level |-> level]

NotRun == [raised |-> FALSE, stmts |-> 0, ret |-> 0]

NoCall == Call("none", "none", None, None, None, NoDate, NotRun, "none")

Init ==
    /\ db = InitialDb
    /\ tables = fetch_tables(db)
    /\ openConns = 0
    /\ table_dd = [s \in Sessions |-> None]
    /\ date_opts = [s \in Sessions |-> <<>>]
    /\ date_val = [s \in Sessions |-> None]
    /\ all_opts = [s \in Sessions |-> <<>>]
    /\ all_val = [s \in Sessions |-> None]
    /\ pc = [s \in Sessions |-> "load"]
    /\ date_cols = [s \in Sessions |-> <<>>]
    /\ opts_table = [s \in Sessions |-> None]
    /\ last = NoCall

\* ------------------------------------------------------------------ inputs
Capitalize(x) == [i \in DOMAIN x |-> IF i = 1 THEN Upper(x[i]) ELSE x[i]]

\* What an operator may type to confirm `target`: nothing, the name, and the
\* name with another case, a trailing blank, or its last character missing.
ConfirmTexts(target) ==
    {None, <<>>} \cup
    (IF Truthy(target)
     THEN {target, Capitalize(target), target \o <<Space>>, SubSeq(target, 1, Len(target) - 1)}
     ELSE {t_orders})

\* What an operator may enter as new column name and data type: no name, an
\* empty one, a name, the name with another case or a trailing blank, a
\* blank; and no type.
AddColumnInputs ==
    ({None, <<>>, c_notes, Capitalize(c_notes), c_notes \o <<Space>>, <<Space>>} \X {<<"TEXT">>})
    \cup ({c_notes} \X {None})

\* ------------------------------------------------------------------ callbacks
\* update_columns: the four outputs it returns.
ReturnColumns(s, dcols, acols) ==
    [date_opts |-> dcols, date_val |-> None, all_opts |-> acols, all_val |-> None]

SetOutputs(s, table, out) ==
    /\ date_opts' = [date_opts EXCEPT ![s] = out.date_opts]
    /\ date_val' = [date_val EXCEPT ![s] = out.date_val]
    /\ all_opts' = [all_opts EXCEPT ![s] = out.all_opts]
    /\ all_val' = [all_val EXCEPT ![s] = out.all_val]
    /\ opts_table' = [opts_table EXCEPT ![s] = table]

\* The page loads: Dash calls update_columns with the dropdown's initial value.
LoadPage(s) ==
    /\ pc[s] = "load"
    /\ ~Truthy(table_dd[s])
    /\ SetOutputs(s, table_dd[s], ReturnColumns(s, <<>>, <<>>))
    /\ pc' = [pc EXCEPT ![s] = "idle"]
    /\ last' = Call(s, "update_columns", table_dd[s], None, None, NoDate, NotRun, "none")
    /\ UNCHANGED <<db, tables, openConns, table_dd, date_cols>>

\* The operator picks a table and Dash calls update_columns.  One call per
\* session is in flight: the next table change waits for it to return.
SelectTable(s, t) ==
    /\ pc[s] = "idle"
    /\ t \in Range(tables)
    /\ t # table_dd[s]
    /\ table_dd' = [table_dd EXCEPT ![s] = t]
    /\ pc' = [pc EXCEPT ![s] = "fetch_date"]
    /\ last' = NoCall
    /\ UNCHANGED <<db, tables, openConns, date_opts, date_val, all_opts, all_val,
                   date_cols, opts_table>>

\* update_columns, first catalog query.
UpdateColumnsFetchDate(s) ==
    /\ pc[s] = "fetch_date"
    /\ openConns < MaxOpenConns
    /\ date_cols' = [date_cols EXCEPT ![s] = fetch_date_columns(db, table_dd[s])]
    /\ openConns' = openConns + 1
    /\ pc' = [pc EXCEPT ![s] = "fetch_all"]
    /\ last' = NoCall
    /\ UNCHANGED <<db, tables, table_dd, date_opts, date_val, all_opts, all_val, opts_table>>

\* update_columns, second catalog query and return.
UpdateColumnsFetchAll(s) ==
    /\ pc[s] = "fetch_all"
    /\ openConns < MaxOpenConns
    /\ SetOutputs(s, table_dd[s],
                  ReturnColumns(s, date_cols[s], fetch_all_columns(db, table_dd[s])))
    /\ date_cols' = [date_cols EXCEPT ![s] = <<>>]
    /\ openConns' = openConns + 1
    /\ pc' = [pc EXCEPT ![s] = "idle"]
    /\ last' = [Call(s, "update_columns", table_dd[s], None, None, NoDate, NotRun, "none")
                  EXCEPT !.conns = 2, !.stmts = 2]
    /\ UNCHANGED <<db, tables, table_dd>>

\* The operator picks a column among the options a dropdown shows.
SelectDateColumn(s, c) ==
    /\ c \in Range(date_opts[s])
    /\ c # date_val[s]
    /\ date_val' = [date_val EXCEPT ![s] = c]
    /\ last' = NoCall
    /\ UNCHANGED <<db, tables, openConns, table_dd, date_opts, all_opts, all_val,
                   pc, date_cols, opts_table>>

SelectColumn(s, c) ==
    /\ c \in Range(all_opts[s])
    /\ c # all_val[s]
    /\ all_val' = [all_val EXCEPT ![s] = c]
    /\ last' = NoCall
    /\ UNCHANGED <<db, tables, openConns, table_dd, date_opts, date_val, all_opts,
                   pc, date_cols, opts_table>>

\* The four button callbacks.  Each is a request of its own, made with the
\* dropdown values the browser holds when the button is pressed (State);
\* nothing orders it after an update_columns call still in flight.

\* A mutator ran: what it committed, and its connection, which stays open
\* behind it.
Ran(r) ==
    /\ openConns < MaxOpenConns
    /\ db' = r.db
    /\ openConns' = openConns + 1

\* Mutant: the column is not checked.
RowDeleteInputsMissingNoColumn(table, column, cutoff) ==
    ~Truthy(table) \/ cutoff = NoDate

RowDeleteInputsMissing(table, column, cutoff) ==
    ~Truthy(table) \/ ~Truthy(column) \/ cutoff = NoDate

HandleRowDelete(s, cutoff) ==
    /\ LET table == table_dd[s]
           column == date_val[s]
       IN  IF RowDeleteInputsMissing(table, column, cutoff)
           THEN /\ last' = Call(s, "row_delete", table, column, None, cutoff, NotRun, "warning")
                /\ UNCHANGED <<db, openConns>>
           ELSE LET r == delete_before_date(db, table, column, cutoff)
                IN  /\ Ran(r)
                    /\ last' = Call(s, "row_delete", table, column, None, cutoff, r,
                                    IF r.raised THEN "exception" ELSE "success")
    /\ UNCHANGED <<tables, ui>>

AddColumnInputsMissing(table, col, dtype) ==
    ~Truthy(table) \/ ~Truthy(col) \/ ~Truthy(dtype)

HandleAddColumn(s, col, dtype) ==
    /\ LET table == table_dd[s]
       IN  IF AddColumnInputsMissing(table, col, dtype)
           THEN /\ last' = Call(s, "add_column", table, col, dtype, NoDate, NotRun, "warning")
                /\ UNCHANGED <<db, openConns>>
           ELSE LET r == add_column(db, table, col, dtype)
                IN  /\ Ran(r)
                    /\ last' = Call(s, "add_column", table, col, dtype, NoDate, r,
                                    IF r.raised THEN "danger" ELSE "success")
    /\ UNCHANGED <<tables, ui>>

DropColumnInputsMissing(table, col, confirm) ==
    ~Truthy(table) \/ ~Truthy(col) \/ ~Truthy(confirm)

ColumnConfirmed(col, confirm) == col = confirm

HandleDropColumn(s, confirm) ==
    /\ LET table == table_dd[s]
           col == all_val[s]
       IN  IF DropColumnInputsMissing(table, col, confirm)
           THEN /\ last' = Call(s, "drop_column", table, col, confirm, NoDate, NotRun, "warning")
                /\ UNCHANGED <<db, openConns>>
           ELSE IF ~ColumnConfirmed(col, confirm)
           THEN /\ last' = Call(s, "drop_column", table, col, confirm, NoDate, NotRun, "danger")
                /\ UNCHANGED <<db, openConns>>
           ELSE LET r == drop_column(db, table, col)
                IN  /\ Ran(r)
                    /\ last' = Call(s, "drop_column", table, col, confirm, NoDate, r,
                                    IF r.raised THEN "danger" ELSE "success")
    /\ UNCHANGED <<tables, ui>>

\* Mutant: the confirmation is compared ignoring case and surrounding blanks.
TableConfirmedLoosely(table, confirmation) == Ident(confirmation) = Ident(table)

TableConfirmed(table, confirmation) == confirmation = table

HandleTableDelete(s, confirmation) ==
    /\ LET table == table_dd[s]
       IN  IF ~Truthy(table) \/ ~TableConfirmed(table, confirmation)
           THEN /\ last' = Call(s, "drop_table", table, None, confirmation, NoDate, NotRun, "danger")
                /\ UNCHANGED <<db, openConns>>
           ELSE LET r == drop_table(db, table)
                IN  /\ Ran(r)
                    /\ last' = Call(s, "drop_table", table, None, confirmation, NoDate, r,
                                    IF r.raised THEN "exception" ELSE "success")
    /\ UNCHANGED <<tables, ui>>

\* ------------------------------------------------------------------ environment
\* Another browser session's callback commits a statement: a column added
\* to, or dropped from, a table of its list, or the table dropped.
OtherSessionAddColumn(t, dtype) ==
    /\ LET r == add_column(db, t, c_notes, dtype)
       IN  ~r.raised /\ Ran(r)
    /\ last' = NoCall
    /\ UNCHANGED <<tables, ui>>

OtherSessionDropColumn(t, c) ==
    /\ LET r == drop_column(db, t, c)
       IN  ~r.raised /\ Ran(r)
    /\ last' = NoCall
    /\ UNCHANGED <<tables, ui>>

OtherSessionDropTable(t) ==
    /\ LET r == drop_table(db, t)
       IN  ~r.raised /\ Ran(r)
    /\ last' = NoCall
    /\ UNCHANGED <<tables, ui>>

\* The interpreter finalizes a connection object nothing refers to any more,
\* which closes it; no statement of the program does.
Finalize ==
    /\ openConns > 0
    /\ openConns' = openConns - 1
    /\ last' = NoCall
    /\ UNCHANGED <<db, tables, ui>>

Next ==
    \/ \E s \in Sessions : LoadPage(s)
    \/ \E s \in Sessions, t \in Range(tables) : SelectTable(s, t)
    \/ \E s \in Sessions : UpdateColumnsFetchDate(s)
    \/ \E s \in Sessions : UpdateColumnsFetchAll(s)
    \/ \E s \in Sessions : \E c \in Range(date_opts[s]) : SelectDateColumn(s, c)
    \/ \E s \in Sessions : \E c \in Range(all_opts[s]) : SelectColumn(s, c)
    \/ \E s \in Sessions, cutoff \in Dates \cup {NoDate} : HandleRowDelete(s, cutoff)
    \/ \E s \in Sessions, in \in AddColumnInputs : HandleAddColumn(s, in[1], in[2])
    \/ \E s \in Sessions : \E confirm \in ConfirmTexts(all_val[s]) : HandleDropColumn(s, confirm)
    \/ \E s \in Sessions : \E confirmation \in ConfirmTexts(table_dd[s]) :
           HandleTableDelete(s, confirmation)
    \/ \E t \in Range(tables) : OtherSessionAddColumn(t, <<"TEXT">>)
    \/ \E t \in Range(tables), c \in {c_created, c_ts, c_notes} : OtherSessionDropColumn(t, c)
    \/ \E t \in Range(tables) : OtherSessionDropTable(t)
    \/ Finalize

Spec == Init /\ [][Next]_vars

TypeOK ==
    /\ openConns \in 0..MaxOpenConns
    /\ \A s \in Sessions : pc[s] \in {"load", "idle", "fetch_date", "fetch_all"}

\* ------------------------------------------------------------------ claims
Mutators == {"row_delete", "add_column", "drop_column", "drop_table"}

\* The confirmation typed for a drop differs from its target.
Mismatch(l) ==
    \/ l.op = "drop_table" /\ l.text # l.table
    \/ l.op = "drop_column" /\ l.text # l.col

\* C1: a drop-table or drop-column whose typed confirmation is not exactly
\* the selected table or column name (another case, a blank more, a
\* character less, nothing) ends rejected: it issues no statement, returns
\* no success, and leaves the schema, with the target in it, as it was.
C1_ExactConfirmation ==
    [][Mismatch(last') =>
         /\ last'.stmts = 0
         /\ last'.level \in {"warning", "danger"}
         /\ db' = db]_vars

\* C1 witness: "Or" typed for the selected table "or", rejected, table kept.
C1_Witness ==
    /\ last.op = "drop_table"
    /\ last.table = t_orders
    /\ last.text = Capitalize(t_orders)
    /\ last.level = "danger"
    /\ last.stmts = 0
    /\ t_orders \in DOMAIN db

\* A required input of the mutating callback is missing or empty.
InputMissing(l) ==
    /\ l.op \in Mutators
    /\ \/ ~Truthy(l.table)
       \/ l.op = "row_delete" /\ (~Truthy(l.col) \/ l.cutoff = NoDate)
       \/ l.op = "add_column" /\ (~Truthy(l.col) \/ ~Truthy(l.text))
       \/ l.op = "drop_column" /\ (~Truthy(l.col) \/ ~Truthy(l.text))
       \/ l.op = "drop_table" /\ ~Truthy(l.text)

\* C2: a mutating callback invoked with a required input missing or empty
\* (no table selected, in particular) opens no connection and issues no
\* statement, and the database is unchanged.
C2_MissingInputNoDatabaseCall ==
    [][InputMissing(last') =>
         /\ last'.conns = 0
         /\ last'.stmts = 0
         /\ openConns' = openConns
         /\ db' = db]_vars

\* C2 witness: delete-rows pressed with a cutoff date and no table selected.
C2_Witness ==
    /\ last.op = "row_delete"
    /\ ~Truthy(last.table)
    /\ last.cutoff # NoDate
    /\ last.conns = 0

\* C3: a mutating callback that returns without executing a statement (an
\* input missing, or a confirmation mismatch) reports a warning-level
\* message, never an error-level one.
C3_ValidationIsWarning ==
    (last.op \in Mutators /\ last.stmts = 0) => last.level = "warning"

\* C4: a statement the database fails ends in an error-level message
\* returned by the callback; no exception leaves the callback.
C4_FailureIsErrorMessage ==
    (last.op \in Mutators /\ last.raised) => last.level = "danger"

\* The rows a DELETE ... WHERE c < cutoff selects.
Before(rows, c, cutoff) == {id \in DOMAIN rows : rows[id][c] \in Dates /\ rows[id][c] < cutoff}

\* C5: a successful delete-before-date removes exactly the rows whose value
\* in the chosen column is strictly before the cutoff (rows at the cutoff,
\* after it, or without a value stay), changes nothing else, and reports
\* the number of rows removed.
C5_DeletesStrictlyBefore ==
    [][(last'.op = "row_delete" /\ last'.level = "success") =>
         LET t == last'.table
             gone == Before(db[t].rows, last'.col, last'.cutoff)
         IN  /\ DOMAIN db' = DOMAIN db
             /\ \A u \in DOMAIN db \ {t} : db'[u] = db[u]
             /\ db'[t].cols = db[t].cols
             /\ db'[t].rows = Restrict(db[t].rows, DOMAIN db[t].rows \ gone)
             /\ last'.ret = Cardinality(gone)]_vars

\* C5 witness: cutoff 2 on values 1, 2 and NULL: one row deleted, the row
\* dated 2 and the undated row kept.
C5_Witness ==
    /\ last.op = "row_delete"
    /\ last.level = "success"
    /\ last.table = t_orders
    /\ last.col = c_created
    /\ last.cutoff = 2
    /\ last.ret = 1
    /\ t_orders \in DOMAIN db
    /\ DOMAIN db[t_orders].rows = (1..NRows) \ {1}

\* C6: the options of the date-column dropdown are a subset of the options
\* of the all-columns dropdown whenever update_columns has returned.
C6_DateOptionsSubsetOfAll ==
    \A s \in Sessions :
        pc[s] = "idle" => Range(date_opts[s]) \subseteq Range(all_opts[s])

\* C7: when a callback that ran database operations has returned, every
\* connection it opened has been released: none is open.
C7_NoConnectionLeftOpen ==
    last.conns > 0 => openConns = 0

\* C8: a mutating callback issues at most one statement; when the statement
\* fails the database is what it was; when the callback reports success the
\* one statement ran and its effect is in the committed database.
C8_OneStatementCommittedOrNothing ==
    [][last'.op \in Mutators =>
         /\ last'.stmts <= 1
         /\ (last'.raised => db' = db)
         /\ (last'.level = "success" =>
               /\ last'.stmts = 1
               /\ ~last'.raised
               /\ LET t == Ident(last'.table)
                      c == Ident(last'.col)
                  IN  CASE last'.op = "drop_table" -> t \notin DOMAIN db'
                        [] last'.op = "add_column" ->
                              t \in DOMAIN db' /\ c \in DOMAIN db'[t].cols /\ c \notin DOMAIN db[t].cols
                        [] last'.op = "drop_column" ->
                              t \in DOMAIN db' /\ c \notin DOMAIN db'[t].cols /\ c \in DOMAIN db[t].cols
                        [] OTHER -> t \in DOMAIN db')]_vars

\* C8 witness: an add-column the database refused (the name is taken, or is
\* no identifier), with the table still there.
C8_Witness ==
    /\ last.op = "add_column"
    /\ last.raised
    /\ last.stmts = 1
    /\ last.table \in DOMAIN db

\* C9: after a successful add-column of name c on table T, the column list
\* queried for T includes c.
C9_AddedColumnIsListed ==
    (last.op = "add_column" /\ last.level = "success") =>
        last.col \in Range(fetch_all_columns(db, last.table))

\* C10: a statement issued by delete-rows or drop-column names the table
\* whose column lists update_columns fetched last, and a column of the
\* list fetched for it: a column selected under the table selected before
\* is never combined with the newly selected table.
C10_ColumnBelongsToSelectedTable ==
    \A s \in Sessions :
        (last.sess = s /\ last.stmts > 0) =>
          /\ last.op = "row_delete" =>
               last.table = opts_table[s] /\ last.col \in Range(date_opts[s])
          /\ last.op = "drop_column" =>
               last.table = opts_table[s] /\ last.col \in Range(all_opts[s])

====
